---- MODULE Spec2Model ----
(***************************************************************************)
(* A model of the 2D geometry kernel of cplibs: convex hull (monotone      *)
(* chain), closest pair (divide and conquer), the segment relationship     *)
(* classifier with its boolean fast path, and the sweep-line detector of   *)
(* intersecting segments.                                                  *)
(*                                                                         *)
(* A point is a pair <<x, y>>, a segment a pair <<p, q>> of points.  Every *)
(* pure function of the source is an operator of the same name; each       *)
(* specification draws the inputs of one component in its initial state    *)
(* and applies the component's functions in its actions.                   *)
(***************************************************************************)
EXTENDS Integers, Sequences, FiniteSets, TLC

VARIABLES
    pc,        \* position of the running call
    points,    \* the Vec of points handed to convex_hull / min_distance2
    hull,      \* what convex_hull returned
    rehull,    \* what convex_hull returned for its own output
    hull_include_midpoints, \* the flag handed to convex_hull_counterclockwise
    sorted_points, \* the sorted Vec convex_hull_counterclockwise returned
    hull_indices,  \* the indices it returned, counted from 0 as in the code
    antipodal, \* the locals i, j and pairs of antipodal_pairs
    directions, \* the three Directions handed to cmp
    orderings, \* what cmp returned for them, pair by pair
    dist,      \* what min_distance2 returned
    seg1,      \* the first segment handed to the classifier
    seg2,      \* the second segment handed to the classifier
    rel,       \* what relationship_between_segments(seg1, seg2) returned
    meets,     \* what do_intersect(seg1, seg2) returned
    segments,  \* the slice handed to find_intersecting_segments_by
    predicate, \* the predicate handed to it, by name
    events,    \* the events of the sorted vector not yet processed
    active_segments, \* the BTreeSet, as the list of its ids in tree order
    result,    \* <<>> while the sweep runs, then what it returned
    adj_matrix, \* the matrix handed to find_eulerian_circuit, rows and columns from 0
    neighbors, \* its local neighbors: the linked lists of untraversed edges
    heads,     \* its local heads: the first node of each list, None when empty
    stack,     \* its local stack
    cycle,     \* its local cycle
    circuit,   \* <<>> while it runs, then what find_eulerian_circuit returned
    tree,      \* the adjacency lists handed to Lca::new, vertices from 0
    up,        \* the field up of the Lca
    depth,     \* the field depth of the Lca
    query,     \* the pair (a, b) handed to Lca::lca
    answer     \* what Lca::lca returned, -1 before

vars == <<pc, points, hull, rehull, hull_include_midpoints, sorted_points,
          hull_indices, antipodal, directions, orderings, dist,
          seg1, seg2, rel, meets,
          segments, predicate, events, active_segments, result,
          adj_matrix, neighbors, heads, stack, cycle, circuit,
          tree, up, depth, query, answer>>

indexVars == <<rehull, hull_include_midpoints, sorted_points, hull_indices, antipodal>>
pointVars == <<points, hull, dist, indexVars>>
dirVars == <<directions, orderings>>
relVars == <<seg1, seg2, rel, meets>>
sweepVars == <<segments, predicate, events, active_segments, result>>
eulerVars == <<adj_matrix, neighbors, heads, stack, cycle, circuit>>
lcaVars == <<tree, up, depth, query, answer>>
graphVars == <<eulerVars, lcaVars>>

\* The variables of the components a specification does not run.
NoIndex ==
    /\ rehull = <<>>
    /\ hull_include_midpoints = FALSE
    /\ sorted_points = <<>>
    /\ hull_indices = <<>>
    /\ antipodal = <<>>
NoPoints == points = <<>> /\ hull = <<>> /\ dist = -1 /\ NoIndex
NoDir == directions = <<>> /\ orderings = <<>>
NoRel == seg1 = <<>> /\ seg2 = <<>> /\ rel = "" /\ meets = FALSE
NoSweep ==
    /\ segments = <<>>
    /\ predicate = ""
    /\ events = {}
    /\ active_segments = <<>>
    /\ result = <<>>
NoEuler ==
    /\ adj_matrix = <<>>
    /\ neighbors = <<>>
    /\ heads = <<>>
    /\ stack = <<>>
    /\ cycle = <<>>
    /\ circuit = <<>>
NoLca == tree = <<>> /\ up = <<>> /\ depth = <<>> /\ query = <<>> /\ answer = -1
NoGraph == NoEuler /\ NoLca

(***************************************************************************)
(* Bounds of the model.                                                    *)
(***************************************************************************)
MaxX == 2
MaxY == 2
MaxPoints == 4
MaxSet == 8
MaxDir == 2
SweepMaxX == 1
SweepMaxY == 2
MaxSegments == 3
OrderMaxX == 2
OrderMaxY == 2
MaxVertices == 4
MaxMult == 2
MaxTreeSize == 5

Grid == (0..MaxX) \X (0..MaxY)

Range(s) == {s[i] : i \in 1..Len(s)}

\* s is a list of at most n elements of S.
IsSeqUpTo(s, S, n) == \E k \in 0..n : s \in [1..k -> S]

\* The points of a set as a list, in decreasing (x, y) order.
RECURSIVE Listed(_)
Listed(S) ==
    IF S = {} THEN <<>>
    ELSE LET m == CHOOSE p \in S : \A q \in S :
                      p[1] > q[1] \/ (p[1] = q[1] /\ p[2] >= q[2])
         IN  <<m>> \o Listed(S \ {m})

\* The inputs of the point algorithms: every list of at most MaxPoints grid
\* points (any order, repeated points included), and every set of more than
\* MaxPoints and at most MaxSet grid points, listed in decreasing order.
LargeInputs ==
    {Listed(S) : S \in {T \in SUBSET Grid :
                           Cardinality(T) > MaxPoints /\ Cardinality(T) <= MaxSet}}

IsPointInput(s) == IsSeqUpTo(s, Grid, MaxPoints) \/ s \in LargeInputs

(***************************************************************************)
(* Vec helpers.                                                            *)
(***************************************************************************)
\* minf64 and maxf64, on integers.
Min(a, b) == IF a <= b THEN a ELSE b
Max(a, b) == IF a >= b THEN a ELSE b

\* Vec::pop: removes the last element; a no-op on an empty vector.
Pop(v) == IF Len(v) = 0 THEN v ELSE SubSeq(v, 1, Len(v) - 1)

\* Iterator::rev
Rev(v) == [i \in 1..Len(v) |-> v[Len(v) + 1 - i]]

\* PartialOrd of a pair of integers: lexicographic.
PointLess(a, b) == a[1] < b[1] \/ (a[1] = b[1] /\ a[2] < b[2])

\* The sort of a Vec of points by the key (x, y).  Points with equal keys are
\* equal, so the result is the same whatever sorting algorithm orders them.
RECURSIVE InsertSorted(_, _)
InsertSorted(p, s) ==
    IF Len(s) = 0 THEN <<p>>
    ELSE IF PointLess(p, s[1]) THEN <<p>> \o s
    ELSE <<s[1]>> \o InsertSorted(p, Tail(s))

RECURSIVE SortByKey(_)
SortByKey(v) ==
    IF Len(v) = 0 THEN <<>>
    ELSE InsertSorted(v[Len(v)], SortByKey(SubSeq(v, 1, Len(v) - 1)))

(***************************************************************************)
(* convex-hull: the orientation kernel.                                    *)
(***************************************************************************)
cross_product(o, a, b) ==
    (a[1] - o[1]) * (b[2] - o[2]) - (a[2] - o[2]) * (b[1] - o[1])

clockwise(o, a, b) == cross_product(o, a, b) < 0

clockwise_or_collinear(o, a, b) == cross_product(o, a, b) <= 0

counterclockwise(o, a, b) == cross_product(o, a, b) > 0

counterclockwise_or_collinear(o, a, b) == cross_product(o, a, b) >= 0

\* A call of the function pointer turn_direction, named by the function.
turn_direction(t, o, a, b) ==
    CASE t = "clockwise" -> clockwise(o, a, b)
      [] t = "clockwise_or_collinear" -> clockwise_or_collinear(o, a, b)
      [] t = "counterclockwise" -> counterclockwise(o, a, b)
      [] t = "counterclockwise_or_collinear" -> counterclockwise_or_collinear(o, a, b)

(***************************************************************************)
(* convex-hull: half_hull and convex_hull.                                 *)
(***************************************************************************)
\* An `if` in the place of the `while`: pops at most one point.
half_hull_pop_once(h, b, t) ==
    IF Len(h) >= 2 /\ ~turn_direction(t, h[Len(h) - 1], h[Len(h)], b)
    THEN Pop(h)
    ELSE h

\* The while loop of half_hull: pops the top while the last two points of the
\* stack and b fail the turn predicate.
RECURSIVE half_hull_pop(_, _, _)
half_hull_pop(h, b, t) ==
    IF Len(h) >= 2 /\ ~turn_direction(t, h[Len(h) - 1], h[Len(h)], b)
    THEN half_hull_pop(Pop(h), b, t)
    ELSE h


\* The for loop of half_hull from the i-th point on, h being the stack so far.
RECURSIVE half_hull_from(_, _, _, _)
half_hull_from(h, pts, i, t) ==
    IF i > Len(pts) THEN h
    ELSE half_hull_from(Append(half_hull_pop(h, pts[i], t), pts[i]), pts, i + 1, t)

half_hull(pts, t) == half_hull_from(<<>>, pts, 1, t)

\* convex_hull without the sort of its first line.
convex_hull_unsorted(pts, t) ==
    LET lower == Pop(half_hull(pts, t))
        both == lower \o half_hull(Rev(pts), t)
    IN  Pop(both)

convex_hull(pts, t) ==
    LET sorted == SortByKey(pts)
        lower == Pop(half_hull(sorted, t))
        both == lower \o half_hull(Rev(sorted), t)
    IN  Pop(both)

(***************************************************************************)
(* convex-hull: the index-returning form.  Indices count from 0 as in the  *)
(* code, so the point with index i is the (i + 1)-th of the sequence.      *)
(***************************************************************************)
\* The ranges 0..n and (0..n).rev() as the lists of the indices they yield.
index_range(n) == [k \in 1..n |-> k - 1]

\* The while loop of convex_hull_sorted_half for the index i.
RECURSIVE convex_hull_sorted_half_pop(_, _, _, _)
convex_hull_sorted_half_pop(pts, half, i, t) ==
    IF Len(half) >= 2 /\
       ~turn_direction(t, pts[half[Len(half) - 1] + 1], pts[half[Len(half)] + 1], pts[i + 1])
    THEN convex_hull_sorted_half_pop(pts, Pop(half), i, t)
    ELSE half

\* The for loop of convex_hull_sorted_half from the k-th index of iter on.
RECURSIVE convex_hull_sorted_half_from(_, _, _, _, _)
convex_hull_sorted_half_from(pts, iter, k, half, t) ==
    IF k > Len(iter) THEN half
    ELSE convex_hull_sorted_half_from(pts, iter, k + 1,
             Append(convex_hull_sorted_half_pop(pts, half, iter[k], t), iter[k]), t)

convex_hull_sorted_half(pts, iter, half, t) ==
    convex_hull_sorted_half_from(pts, iter, 1, half, t)

\* convex_hull_sorted without the pop that drops the end of the second half.
convex_hull_sorted_keep_last(sorted, t) ==
    LET n == Len(sorted)
        lower == Pop(convex_hull_sorted_half(sorted, index_range(n), <<>>, t))
        upper == convex_hull_sorted_half(sorted, Rev(index_range(n)), <<>>, t)
    IN  lower \o upper

convex_hull_sorted(sorted, t) ==
    LET n == Len(sorted)
        lower == Pop(convex_hull_sorted_half(sorted, index_range(n), <<>>, t))
        upper == Pop(convex_hull_sorted_half(sorted, Rev(index_range(n)), <<>>, t))
    IN  lower \o upper

\* The pair (points, hull) it returns, as a record.
convex_hull_counterclockwise(pts, flag) ==
    LET sorted == SortByKey(pts)
        t == IF flag THEN "counterclockwise_or_collinear" ELSE "counterclockwise"
    IN  [points |-> sorted, hull |-> convex_hull_sorted(sorted, t)]

(***************************************************************************)
(* The hull specification: convex_hull applied to every list of at most    *)
(* MaxPoints grid points, and to the eight-point diamond of the tests.     *)
(***************************************************************************)
Diamond ==
    << <<0, 0>>, <<1, 1>>, <<2, 2>>, <<3, 1>>, <<4, 0>>, <<3, -1>>, <<2, -2>>, <<1, -1>> >>

DiamondHull == << <<0, 0>>, <<2, -2>>, <<4, 0>>, <<2, 2>> >>

\* An input with a point strictly inside its hull.
Kite == << <<1, 1>>, <<0, 0>>, <<3, 0>>, <<1, 3>>, <<1, 1>> >>

IsHullInput(s) == IsPointInput(s) \/ s \in {Diamond, Kite}

InitHull ==
    /\ pc = "convex_hull"
    /\ IsHullInput(points)
    /\ hull = <<>>
    /\ dist = -1
    /\ NoIndex
    /\ NoRel
    /\ NoGraph
    /\ NoSweep
    /\ NoDir

ConvexHull ==
    /\ pc = "convex_hull"
    /\ hull' = convex_hull(points, "counterclockwise")
    /\ pc' = "hull_done"
    /\ UNCHANGED <<points, dist, indexVars, relVars, sweepVars, dirVars, graphVars>>

\* A second call, on the Vec the first call returned.
ConvexHullOfHull ==
    /\ pc = "hull_done"
    /\ rehull' = convex_hull(hull, "counterclockwise")
    /\ pc' = "rehull_done"
    /\ UNCHANGED <<points, hull, dist, hull_include_midpoints, sorted_points,
                   hull_indices, antipodal, relVars, sweepVars, dirVars, graphVars>>

NextHull == ConvexHull \/ ConvexHullOfHull

SpecHull == InitHull /\ [][NextHull]_vars

(***************************************************************************)
(* The index specification: convex_hull_counterclockwise applied to the    *)
(* same inputs, with either value of hull_include_midpoints.               *)
(***************************************************************************)
InitIndex ==
    /\ pc = "convex_hull_counterclockwise"
    /\ IsHullInput(points)
    /\ hull = <<>>
    /\ dist = -1
    /\ NoIndex
    /\ NoRel
    /\ NoGraph
    /\ NoSweep
    /\ NoDir

ConvexHullCounterclockwise ==
    /\ pc = "convex_hull_counterclockwise"
    /\ \E flag \in BOOLEAN :
          \E r \in {convex_hull_counterclockwise(points, flag)} :
              /\ hull_include_midpoints' = flag
              /\ sorted_points' = r.points
              /\ hull_indices' = r.hull
    /\ pc' = "index_done"
    /\ UNCHANGED <<points, hull, dist, rehull, antipodal, relVars, sweepVars, dirVars, graphVars>>

NextIndex == ConvexHullCounterclockwise

SpecIndex == InitIndex /\ [][NextIndex]_vars

(***************************************************************************)
(* Geometry the claims are stated with, independent of the algorithms.     *)
(***************************************************************************)
\* p lies on the closed segment from a to b.
OnSegment(p, a, b) ==
    /\ cross_product(a, b, p) = 0
    /\ Min(a[1], b[1]) <= p[1] /\ p[1] <= Max(a[1], b[1])
    /\ Min(a[2], b[2]) <= p[2] /\ p[2] <= Max(a[2], b[2])

\* p lies on or inside the polygon with the counter-clockwise vertex list h.
InsideOrOn(p, h) ==
    CASE Len(h) = 0 -> FALSE
      [] Len(h) = 1 -> p = h[1]
      [] Len(h) = 2 -> OnSegment(p, h[1], h[2])
      [] OTHER -> \A i \in 1..Len(h) :
                      cross_product(h[i], h[(i % Len(h)) + 1], p) >= 0

AllCollinear(s) ==
    \A i, j, k \in 1..Len(s) : cross_product(s[i], s[j], s[k]) = 0

\* The lexicographically smallest point of a non-empty list.
IsLexMin(p, s) == p \in Range(s) /\ \A q \in Range(s) : ~PointLess(q, p)

StrictlyConvexCCW(h) ==
    /\ Len(h) >= 3
    /\ \A i \in 1..Len(h) :
          cross_product(h[i], h[(i % Len(h)) + 1], h[((i + 1) % Len(h)) + 1]) > 0

(***************************************************************************)
(* C1: every input point lies on or inside the returned hull (on the       *)
(* segment for a 2-vertex result, equal to the vertex for a 1-vertex       *)
(* result), and every returned vertex is an input point.                   *)
(***************************************************************************)
C1_HullContainsInput ==
    pc = "hull_done" =>
        /\ \A p \in Range(points) : InsideOrOn(p, hull)
        /\ \A v \in Range(hull) : v \in Range(points)

(***************************************************************************)
(* C2: for points that are not all collinear the hull starts at the        *)
(* lexicographically smallest input point and every three cyclically       *)
(* consecutive vertices turn strictly counter-clockwise; the diamond of    *)
(* the tests gives [(0,0),(2,-2),(4,0),(2,2)].                             *)
(***************************************************************************)
C2_StrictlyConvexFromMin ==
    pc = "hull_done" =>
        /\ ~AllCollinear(points) =>
              /\ StrictlyConvexCCW(hull)
              /\ IsLexMin(hull[1], points)
        /\ points = Diamond => hull = DiamondHull

C2_Witness ==
    /\ pc = "hull_done"
    /\ ~AllCollinear(points)
    /\ Len(points) = MaxPoints
    /\ Len(hull) = 3
    /\ \E i \in 1..Len(points) : points[i] \notin Range(hull)

(***************************************************************************)
(* C12: convex_hull applied to the hull it returned gives that hull again, *)
(* the same points in the same order.                                      *)
(***************************************************************************)
C12_Idempotent ==
    pc = "rehull_done" => rehull = hull

\* A hull with at least three vertices, of an input with a dropped point,
\* whose vertex list is not in sorted order.
C12_Witness ==
    /\ pc = "rehull_done"
    /\ Len(hull) >= 3
    /\ Len(points) > Len(hull)
    /\ hull # SortByKey(hull)

\* The lexicographically largest point of a non-empty list.
IsLexMax(p, s) == p \in Range(s) /\ \A q \in Range(s) : ~PointLess(p, q)

\* No point occurs twice in the list.
Distinct(s) == \A k, l \in 1..Len(s) : k # l => s[k] # s[l]

(***************************************************************************)
(* C13: on degenerate input convex_hull returns [] for no points, [p] for  *)
(* a single point p, [min, max] for two distinct points and [min, max],    *)
(* the two lexicographic extremes, for three or more distinct points that  *)
(* are all collinear.                                                      *)
(***************************************************************************)
C13_DegenerateHull ==
    pc = "hull_done" =>
        /\ Len(points) = 0 => hull = <<>>
        /\ Len(points) = 1 => hull = points
        /\ (Len(points) >= 2 /\ Distinct(points) /\ AllCollinear(points)) =>
              /\ Len(hull) = 2
              /\ IsLexMin(hull[1], points)
              /\ IsLexMax(hull[2], points)

(***************************************************************************)
(* C14: with the strict predicate counterclockwise, and with               *)
(* hull_include_midpoints = false, no point of the returned hull and no    *)
(* index of the returned index list appears twice, whatever the input.     *)
(***************************************************************************)
C14_DuplicateFree ==
    pc = "hull_done" =>
        /\ Distinct(hull)
        /\ Distinct(convex_hull_counterclockwise(points, FALSE).hull)

\* s is a rearrangement of v in nondecreasing (x, y) order.
IsSortedPermutation(s, v) ==
    /\ Len(s) = Len(v)
    /\ \A p \in Range(v) :
          Cardinality({k \in 1..Len(s) : s[k] = p}) =
          Cardinality({k \in 1..Len(v) : v[k] = p})
    /\ \A k \in 1..(Len(s) - 1) : ~PointLess(s[k + 1], s[k])

(***************************************************************************)
(* C15: convex_hull_counterclockwise(P, flag) returns (S, I) where S is P  *)
(* sorted by (x, y), every index of I is below |S|, and the points S[i]    *)
(* for i in I, in order, are convex_hull(P, key (x, y), pred) with pred    *)
(* counterclockwise_or_collinear if flag, else counterclockwise.           *)
(***************************************************************************)
C15_IndexFormAgrees ==
    pc = "index_done" =>
        /\ IsSortedPermutation(sorted_points, points)
        /\ \A k \in 1..Len(hull_indices) :
              hull_indices[k] >= 0 /\ hull_indices[k] < Len(sorted_points)
        /\ [k \in 1..Len(hull_indices) |-> sorted_points[hull_indices[k] + 1]] =
              convex_hull(points, IF hull_include_midpoints
                                  THEN "counterclockwise_or_collinear"
                                  ELSE "counterclockwise")

\* The flag is set and an index of a collinear midpoint is returned: the
\* index list is longer than the strict hull of the same input.
C15_Witness ==
    /\ pc = "index_done"
    /\ hull_include_midpoints
    /\ ~AllCollinear(points)
    /\ Distinct(points)
    /\ Len(hull_indices) > Len(convex_hull(points, "counterclockwise"))
    /\ points # sorted_points

(***************************************************************************)
(* convex-hull: antipodal_pairs, one action per step of its loops.  The    *)
(* locals i, j and pairs are the fields of the variable antipodal; indices *)
(* count from 0 as in the code.                                            *)
(***************************************************************************)
\* The loop continues also when the next area equals the current one.
antipodal_advance_or_equal(pts, i, j) ==
    LET n == Len(pts)
        next_i == (i + 1) % n
        curr_area == cross_product(pts[i + 1], pts[next_i + 1], pts[j + 1])
        next_j == (j + 1) % n
        next_area == cross_product(pts[i + 1], pts[next_i + 1], pts[next_j + 1])
    IN  next_area >= curr_area

\* The edge taken from points[i] to points[i] itself, the + 1 forgotten.
antipodal_advance_degenerate_edge(pts, i, j) ==
    LET n == Len(pts)
        curr_area == cross_product(pts[i + 1], pts[i + 1], pts[j + 1])
        next_j == (j + 1) % n
        next_area == cross_product(pts[i + 1], pts[i + 1], pts[next_j + 1])
    IN  next_area > curr_area

\* The comparison of the two areas the other way round.
antipodal_advance_smaller(pts, i, j) ==
    LET n == Len(pts)
        next_i == (i + 1) % n
        curr_area == cross_product(pts[i + 1], pts[next_i + 1], pts[j + 1])
        next_j == (j + 1) % n
        next_area == cross_product(pts[i + 1], pts[next_i + 1], pts[next_j + 1])
    IN  next_area < curr_area

\* The condition of the while loop.
antipodal_advance(pts, i, j) ==
    LET n == Len(pts)
        next_i == (i + 1) % n
        curr_area == cross_product(pts[i + 1], pts[next_i + 1], pts[j + 1])
        next_j == (j + 1) % n
        next_area == cross_product(pts[i + 1], pts[next_i + 1], pts[next_j + 1])
    IN  next_area > curr_area

\* The inputs of antipodal_pairs: every list of fewer than MaxPoints grid
\* points (any order, repeated points included), every set of MaxPoints to
\* MaxSet grid points in decreasing order and the hull convex_hull returns
\* for it, the diamond and its hull, and the kite.
AntipodalSets ==
    {Listed(S) : S \in {T \in SUBSET Grid :
                           Cardinality(T) >= MaxPoints /\ Cardinality(T) <= MaxSet}}

AntipodalHulls == {convex_hull(l, "counterclockwise") : l \in AntipodalSets}

IsAntipodalInput(s) ==
    \/ IsSeqUpTo(s, Grid, MaxPoints - 1)
    \/ s \in AntipodalSets
    \/ s \in AntipodalHulls
    \/ s \in {Diamond, DiamondHull, Kite}

InitAntipodal ==
    /\ pc = "antipodal_pairs"
    /\ IsAntipodalInput(points)
    /\ hull = <<>>
    /\ dist = -1
    /\ NoIndex
    /\ NoRel
    /\ NoGraph
    /\ NoSweep
    /\ NoDir

\* The match on n.cmp(&2): the two early returns, or the entry of the loop.
AntipodalPairs ==
    /\ pc = "antipodal_pairs"
    /\ \/ /\ Len(points) < 2
          /\ antipodal' = [i |-> 0, j |-> 0, pairs |-> <<>>]
          /\ pc' = "antipodal_done"
       \/ /\ Len(points) = 2
          /\ antipodal' = [i |-> 0, j |-> 0, pairs |-> << <<0, 1>> >>]
          /\ pc' = "antipodal_done"
       \/ /\ Len(points) > 2
          /\ antipodal' = [i |-> 0, j |-> 1, pairs |-> <<>>]
          /\ pc' = "antipodal_loop"
    /\ UNCHANGED <<points, hull, dist, rehull, hull_include_midpoints,
                   sorted_points, hull_indices, relVars, sweepVars, dirVars, graphVars>>

\* One iteration of the while loop: j = (j + 1) % n.
AntipodalAdvance ==
    /\ pc = "antipodal_loop"
    /\ antipodal.i < Len(points)
    /\ antipodal_advance(points, antipodal.i, antipodal.j)
    /\ antipodal' = [antipodal EXCEPT !.j = (antipodal.j + 1) % Len(points)]
    /\ UNCHANGED <<pc, points, hull, dist, rehull, hull_include_midpoints,
                   sorted_points, hull_indices, relVars, sweepVars, dirVars, graphVars>>

\* The while loop ends: pairs.push((i, j)), and the for loop goes on.
AntipodalPush ==
    /\ pc = "antipodal_loop"
    /\ antipodal.i < Len(points)
    /\ ~antipodal_advance(points, antipodal.i, antipodal.j)
    /\ antipodal' = [antipodal EXCEPT
                         !.pairs = Append(@, <<antipodal.i, antipodal.j>>),
                         !.i = @ + 1]
    /\ UNCHANGED <<pc, points, hull, dist, rehull, hull_include_midpoints,
                   sorted_points, hull_indices, relVars, sweepVars, dirVars, graphVars>>

\* The for loop is over: pairs is returned.
AntipodalReturn ==
    /\ pc = "antipodal_loop"
    /\ antipodal.i = Len(points)
    /\ pc' = "antipodal_done"
    /\ UNCHANGED <<pointVars, relVars, sweepVars, dirVars, graphVars>>

NextAntipodal ==
    AntipodalPairs \/ AntipodalAdvance \/ AntipodalPush \/ AntipodalReturn

SpecAntipodal == InitAntipodal /\ [][NextAntipodal]_vars

\* The call runs on its own thread of control: it keeps taking steps.
SpecAntipodalFair == SpecAntipodal /\ WF_vars(NextAntipodal)

\* The shape of the returned list.
OnePairPerEdge(pairs, n) ==
    CASE n < 2 -> pairs = <<>>
      [] n = 2 -> pairs = << <<0, 1>> >>
      [] OTHER -> /\ Len(pairs) = n
                  /\ \A k \in 1..n :
                        pairs[k][1] = k - 1 /\ pairs[k][2] \in 0..(n - 1)

(***************************************************************************)
(* C16: antipodal_pairs terminates on every input, and returns [] for      *)
(* fewer than 2 points, [(0,1)] for 2 points, and for n >= 3 points n      *)
(* pairs, the k-th with first component k and second component in 0..n-1.  *)
(***************************************************************************)
C16_TerminatesOnePairPerEdge ==
    /\ <>(pc = "antipodal_done")
    /\ [](pc = "antipodal_done" => OnePairPerEdge(antipodal.pairs, Len(points)))

\* A returned list for at least four distinct points during which j has been
\* advanced past the last index, back to 0.
C16_Witness ==
    /\ pc = "antipodal_done"
    /\ Len(points) >= 4
    /\ Distinct(points)
    /\ \E k \in 1..Len(antipodal.pairs) : antipodal.pairs[k][2] = 0

\* The signed area of the edge from vertex i and the vertex k, indices
\* counted from 0.
EdgeArea(pts, i, k) ==
    cross_product(pts[i + 1], pts[((i + 1) % Len(pts)) + 1], pts[k + 1])

(***************************************************************************)
(* C23: on a strictly convex counter-clockwise polygon with n >= 3         *)
(* vertices every returned pair (i, j) has j a vertex farthest from the    *)
(* edge (i, i+1): its signed area is at least that of every vertex k.      *)
(***************************************************************************)
C23_FarthestFromEdge ==
    (pc = "antipodal_done" /\ StrictlyConvexCCW(points)) =>
        \A m \in 1..Len(antipodal.pairs) :
            \A k \in 0..(Len(points) - 1) :
                EdgeArea(points, antipodal.pairs[m][1], antipodal.pairs[m][2]) >=
                    EdgeArea(points, antipodal.pairs[m][1], k)

\* A strictly convex polygon with at least five vertices, an edge of which
\* has two farthest vertices.
C23_Witness ==
    /\ pc = "antipodal_done"
    /\ StrictlyConvexCCW(points)
    /\ Len(points) >= 5
    /\ \E m \in 1..Len(antipodal.pairs) :
          LET i == antipodal.pairs[m][1]
              j == antipodal.pairs[m][2]
          IN  EdgeArea(points, i, (j + 1) % Len(points)) = EdgeArea(points, i, j)

(***************************************************************************)
(* C24, as the claim states it: whenever (i, j) is emitted the signed area *)
(* with the vertex after j is strictly smaller than the area with j.       *)
(***************************************************************************)
C24_NextStrictlySmaller ==
    (pc \in {"antipodal_loop", "antipodal_done"} /\ Len(points) >= 3) =>
        \A m \in 1..Len(antipodal.pairs) :
            LET i == antipodal.pairs[m][1]
                j == antipodal.pairs[m][2]
            IN  EdgeArea(points, i, (j + 1) % Len(points)) < EdgeArea(points, i, j)

(***************************************************************************)
(* C24, amended: j is advanced (wrapping) only while the signed area with  *)
(* the next vertex is strictly greater than the area with the current one, *)
(* and whenever (i, j) is emitted the area with the vertex after j is not  *)
(* greater than the area with j.                                           *)
(***************************************************************************)
C24_AdvanceWhileGreater ==
    [][pc = "antipodal_loop" =>
          LET n == Len(points)
              i == antipodal.i
              j == antipodal.j
          IN  /\ antipodal'.j # j =>
                    /\ antipodal'.j = (j + 1) % n
                    /\ EdgeArea(points, i, (j + 1) % n) > EdgeArea(points, i, j)
              /\ antipodal'.pairs # antipodal.pairs =>
                    /\ antipodal'.pairs = Append(antipodal.pairs, <<i, j>>)
                    /\ EdgeArea(points, i, (j + 1) % n) <= EdgeArea(points, i, j)]_vars

\* A pair is emitted whose next vertex has the same area as j, j having been
\* advanced for it.
C24_Witness ==
    /\ pc = "antipodal_done"
    /\ Distinct(points)
    /\ \E m \in 1..Len(antipodal.pairs) :
          LET i == antipodal.pairs[m][1]
              j == antipodal.pairs[m][2]
          IN  /\ j # 1
              /\ EdgeArea(points, i, (j + 1) % Len(points)) = EdgeArea(points, i, j)
              /\ EdgeArea(points, i, j) > 0

(***************************************************************************)
(* nearest-points: min_distance2, min_distance2_inner and merge_by_y.      *)
(***************************************************************************)
\* UpperBounded::max_value() of i64.  TLC's integers are 32 bits wide,
\* so the model takes the largest of those: like i64::MAX it exceeds every
\* squared distance the function computes, and is only ever compared.
max_value == 2147483647

\* The squared distance as lines 48 and 79 compute it.
dist2(p, q) == (p[1] - q[1]) * (p[1] - q[1]) + (p[2] - q[2]) * (p[2] - q[2])

\* The two nested loops of the base case: the least distance of a pair i < j.
RECURSIVE base_scan(_, _, _, _)
base_scan(pts, i, j, dist_min) ==
    IF i > Len(pts) THEN dist_min
    ELSE IF j > Len(pts) THEN base_scan(pts, i + 1, i + 2, dist_min)
    ELSE LET d == dist2(pts[i], pts[j])
         IN  base_scan(pts, i, j + 1, IF d < dist_min THEN d ELSE dist_min)

\* slice::sort_by on the y coordinate alone: a stable sort.
RECURSIVE insert_by_y(_, _)
insert_by_y(s, p) ==
    IF Len(s) = 0 THEN <<p>>
    ELSE IF p[2] < s[Len(s)][2]
         THEN Append(insert_by_y(SubSeq(s, 1, Len(s) - 1), p), s[Len(s)])
         ELSE Append(s, p)

RECURSIVE sort_by_y(_)
sort_by_y(v) ==
    IF Len(v) = 0 THEN <<>>
    ELSE insert_by_y(sort_by_y(SubSeq(v, 1, Len(v) - 1)), v[Len(v)])

\* A merge that compares the x coordinates of the two heads.
RECURSIVE merge_by_y_on_x(_, _)
merge_by_y_on_x(left, right) ==
    IF Len(left) = 0 THEN right
    ELSE IF Len(right) = 0 THEN left
    ELSE IF left[1][1] < right[1][1]
         THEN <<left[1]>> \o merge_by_y_on_x(Tail(left), right)
         ELSE <<right[1]>> \o merge_by_y_on_x(left, Tail(right))

RECURSIVE merge_by_y(_, _)
merge_by_y(left, right) ==
    IF Len(left) = 0 THEN right
    ELSE IF Len(right) = 0 THEN left
    ELSE IF left[1][2] < right[1][2]
         THEN <<left[1]>> \o merge_by_y(Tail(left), right)
         ELSE <<right[1]>> \o merge_by_y(left, Tail(right))

\* The inner loop of the strip scan: p against tmp[j], tmp[j-1], ... while the
\* y distance is below dist_min.
RECURSIVE strip_inner(_, _, _, _)
strip_inner(p, tmp, j, dist_min) ==
    IF j = 0 THEN dist_min
    ELSE IF (p[2] - tmp[j][2]) * (p[2] - tmp[j][2]) >= dist_min THEN dist_min
    ELSE LET d == dist2(p, tmp[j])
         IN  strip_inner(p, tmp, j - 1, IF d < dist_min THEN d ELSE dist_min)

\* A strip scan that compares nothing: the answer of the two halves stands.
strip_scan_skipped(pts, i, x_mid, tmp, dist_min) == dist_min

\* The outer loop of the strip scan over the merged points, from the i-th on.
RECURSIVE strip_scan(_, _, _, _, _)
strip_scan(pts, i, x_mid, tmp, dist_min) ==
    IF i > Len(pts) THEN dist_min
    ELSE IF (pts[i][1] - x_mid) * (pts[i][1] - x_mid) >= dist_min
         THEN strip_scan(pts, i + 1, x_mid, tmp, dist_min)
         ELSE strip_scan(pts, i + 1, x_mid, Append(tmp, pts[i]),
                         strip_inner(pts[i], tmp, Len(tmp), dist_min))

\* Returns the slice as the call leaves it, and the distance it returns.
RECURSIVE min_distance2_inner(_)
min_distance2_inner(pts) ==
    IF Len(pts) <= 3
    THEN [points |-> sort_by_y(pts), dist |-> base_scan(pts, 1, 2, max_value)]
    ELSE LET mid == Len(pts) \div 2
             x_mid == pts[mid + 1][1]
             left == min_distance2_inner(SubSeq(pts, 1, mid))
             right == min_distance2_inner(SubSeq(pts, mid + 1, Len(pts)))
             dist_min == IF left.dist < right.dist THEN left.dist ELSE right.dist
             merged == merge_by_y(left.points, right.points)
         IN  [points |-> merged,
              dist |-> strip_scan(merged, 1, x_mid, <<>>, dist_min)]

min_distance2(pts) == min_distance2_inner(SortByKey(pts)).dist

(***************************************************************************)
(* The closest-pair specification: min_distance2 applied to every list of  *)
(* at most MaxPoints grid points.                                          *)
(***************************************************************************)
InitDist ==
    /\ pc = "min_distance2"
    /\ IsPointInput(points)
    /\ hull = <<>>
    /\ dist = -1
    /\ NoIndex
    /\ NoRel
    /\ NoGraph
    /\ NoSweep
    /\ NoDir

\* The call sorts its Vec and hands it to min_distance2_inner, which leaves
\* it reordered: points is that Vec.
MinDistance2 ==
    /\ pc = "min_distance2"
    /\ dist' = min_distance2(points)
    /\ points' = min_distance2_inner(SortByKey(points)).points
    /\ pc' = "dist_done"
    /\ UNCHANGED <<hull, indexVars, relVars, sweepVars, dirVars, graphVars>>

NextDist == MinDistance2

SpecDist == InitDist /\ [][NextDist]_vars

\* The squared distances of all index pairs i < j.
PairDistances(pts) ==
    {dist2(pts[ij[1]], pts[ij[2]]) :
        ij \in {kl \in (1..Len(pts)) \X (1..Len(pts)) : kl[1] < kl[2]}}

\* What the brute-force scan over all pairs returns.
BruteForce(pts) ==
    CHOOSE d \in PairDistances(pts) : \A e \in PairDistances(pts) : d <= e

HasDuplicate(pts) == \E i, j \in 1..Len(pts) : i < j /\ pts[i] = pts[j]

(***************************************************************************)
(* C3: for n >= 2 points min_distance2 returns the least squared distance  *)
(* over all index pairs i < j, and so 0 when a point occurs twice.         *)
(***************************************************************************)
C3_MatchesBruteForce ==
    (pc = "dist_done" /\ Len(points) >= 2) =>
        /\ dist = BruteForce(points)
        /\ HasDuplicate(points) => dist = 0

\* The recursive case ran and the closest pair straddles the split: each half
\* alone has a larger least distance.
C3_Witness ==
    /\ pc = "dist_done"
    /\ Len(points) > MaxPoints
    /\ dist > 0
    /\ LET s == SortByKey(points)
           mid == Len(s) \div 2
       IN  /\ BruteForce(SubSeq(s, 1, mid)) > dist
           /\ BruteForce(SubSeq(s, mid + 1, Len(s))) > dist

\* The slices the calls of min_distance2_inner receive when the outermost
\* call receives s: s itself and, when it has more than 3 points, the slices
\* of the calls on its two halves.
RECURSIVE InnerSlices(_)
InnerSlices(s) ==
    IF Len(s) <= 3 THEN {s}
    ELSE LET mid == Len(s) \div 2
         IN  {s} \cup InnerSlices(SubSeq(s, 1, mid))
                 \cup InnerSlices(SubSeq(s, mid + 1, Len(s)))

IsSortedByY(v) == \A k \in 1..(Len(v) - 1) : v[k][2] <= v[k + 1][2]

SameMultiset(a, b) ==
    /\ Len(a) = Len(b)
    /\ \A p \in Range(b) :
          Cardinality({k \in 1..Len(a) : a[k] = p}) =
          Cardinality({k \in 1..Len(b) : b[k] = p})

(***************************************************************************)
(* C25: every call of min_distance2_inner on a slice sorted by (x, y)      *)
(* leaves the slice holding the same multiset of points in non-decreasing  *)
(* y order: the outermost call, whose slice is the Vec of min_distance2,   *)
(* and every call of the recursion.                                        *)
(***************************************************************************)
C25_ReturnsSortedByY ==
    [][pc = "min_distance2" =>
          /\ IsSortedByY(points')
          /\ SameMultiset(points', points)
          /\ \A s \in InnerSlices(SortByKey(points)) :
                /\ IsSortedByY(min_distance2_inner(s).points)
                /\ SameMultiset(min_distance2_inner(s).points, s)]_vars

\* A call with two levels of recursion has returned, and the order it left
\* is not the (x, y) order it received.
C25_Witness ==
    /\ pc = "dist_done"
    /\ Len(points) >= 7
    /\ points # SortByKey(points)
    /\ \E k \in 1..(Len(points) - 1) : points[k][1] > points[k + 1][1]

(***************************************************************************)
(* plane::line: cross_product, is_in_rectangle, do_intersect and           *)
(* relationship_between_segments, on integer coordinates.                  *)
(***************************************************************************)
line_cross_product(o, a, b) ==
    (a[1] - o[1]) * (b[2] - o[2]) - (a[2] - o[2]) * (b[1] - o[1])

\* p is on or in the axis-parallel rectangle with the given diagonal.
is_in_rectangle(p, diagonal) ==
    LET c1 == diagonal[1]
        c2 == diagonal[2]
        x_min == IF c1[1] <= c2[1] THEN c1[1] ELSE c2[1]
        x_max == IF c1[1] >= c2[1] THEN c1[1] ELSE c2[1]
        y_min == IF c1[2] <= c2[2] THEN c1[2] ELSE c2[2]
        y_max == IF c1[2] >= c2[2] THEN c1[2] ELSE c2[2]
    IN  p[1] >= x_min /\ p[1] <= x_max /\ p[2] >= y_min /\ p[2] <= y_max

\* The straddle test alone: touching segments are not reported.
do_intersect_proper_only(line1, line2) ==
    LET o1 == line_cross_product(line1[1], line1[2], line2[1])
        o2 == line_cross_product(line1[1], line1[2], line2[2])
        o3 == line_cross_product(line2[1], line2[2], line1[1])
        o4 == line_cross_product(line2[1], line2[2], line1[2])
    IN  /\ (o1 > 0 /\ o2 < 0) \/ (o1 < 0 /\ o2 > 0)
        /\ (o3 > 0 /\ o4 < 0) \/ (o3 < 0 /\ o4 > 0)

do_intersect(line1, line2) ==
    LET p1 == line1[1]
        q1 == line1[2]
        p2 == line2[1]
        q2 == line2[2]
        o1 == line_cross_product(p1, q1, p2)
        o2 == line_cross_product(p1, q1, q2)
        o3 == line_cross_product(p2, q2, p1)
        o4 == line_cross_product(p2, q2, q1)
    IN  \/ /\ (o1 > 0 /\ o2 < 0) \/ (o1 < 0 /\ o2 > 0)
           /\ (o3 > 0 /\ o4 < 0) \/ (o3 < 0 /\ o4 > 0)
        \/ o1 = 0 /\ is_in_rectangle(p2, line1)
        \/ o2 = 0 /\ is_in_rectangle(q2, line1)
        \/ o3 = 0 /\ is_in_rectangle(p1, line2)
        \/ o4 = 0 /\ is_in_rectangle(q1, line2)

\* The collinear case without the swap that orders the first segment's
\* endpoints.
relationship_collinear_unordered(p1, q1, p2, q2) ==
    LET a == <<p1, q1>>
        b == IF PointLess(q2, p2) THEN <<q2, p2>> ELSE <<p2, q2>>
        first == IF PointLess(b[1], a[1]) THEN b ELSE a
        second == IF PointLess(b[1], a[1]) THEN a ELSE b
    IN  IF PointLess(second[1], first[2]) THEN "Collinear"
        ELSE IF second[1] = first[2] THEN "MutualEndpoint"
        ELSE "None"

\* Lines 95-111: all four endpoints on one line.  Each segment is put in
\* increasing endpoint order, the two segments in the order of their starts.
relationship_collinear(p1, q1, p2, q2) ==
    LET a == IF PointLess(q1, p1) THEN <<q1, p1>> ELSE <<p1, q1>>
        b == IF PointLess(q2, p2) THEN <<q2, p2>> ELSE <<p2, q2>>
        first == IF PointLess(b[1], a[1]) THEN b ELSE a
        second == IF PointLess(b[1], a[1]) THEN a ELSE b
    IN  IF PointLess(second[1], first[2]) THEN "Collinear"
        ELSE IF second[1] = first[2] THEN "MutualEndpoint"
        ELSE "None"

\* The touching case without the swaps of p2 and q2: the first endpoint is
\* tested even when the zero orientation is the second endpoint's.
relationship_touching_first_endpoint(p1, q1, p2, q2, o1, o2, o4) ==
    LET onFirst == o1 = 0 \/ o2 = 0
        base == IF onFirst THEN <<p1, q1>> ELSE <<p2, q2>>
        tip == IF onFirst THEN p2 ELSE p1
    IN  IF is_in_rectangle(tip, base)
        THEN (IF tip = base[1] \/ tip = base[2] THEN "MutualEndpoint" ELSE "OneSided")
        ELSE "None"

\* Lines 113-133: some orientation is zero, o1 and o2 are not both zero.  The
\* endpoint with the zero orientation is tested against the other segment.
relationship_touching(p1, q1, p2, q2, o1, o2, o4) ==
    LET onFirst == o1 = 0 \/ o2 = 0
        base == IF onFirst THEN <<p1, q1>> ELSE <<p2, q2>>
        tip == IF onFirst
               THEN (IF o2 = 0 THEN q2 ELSE p2)
               ELSE (IF o4 = 0 THEN q1 ELSE p1)
    IN  IF is_in_rectangle(tip, base)
        THEN (IF tip = base[1] \/ tip = base[2] THEN "MutualEndpoint" ELSE "OneSided")
        ELSE "None"

\* A classifier that reports Proper as soon as one pair of orientations has
\* opposite signs.
relationship_proper_if_one_pair(o1, o2, o3, o4) ==
    IF ((o1 > 0 /\ o2 > 0) \/ (o1 < 0 /\ o2 < 0)) /\
       ((o3 > 0 /\ o4 > 0) \/ (o3 < 0 /\ o4 < 0))
    THEN "None"
    ELSE "Proper"

\* Lines 85-93: all four orientations are nonzero.
relationship_general(o1, o2, o3, o4) ==
    IF \/ (o1 > 0 /\ o2 > 0)
       \/ (o1 < 0 /\ o2 < 0)
       \/ (o3 > 0 /\ o4 > 0)
       \/ (o3 < 0 /\ o4 < 0)
    THEN "None"
    ELSE "Proper"

relationship_between_segments(s1, s2) ==
    LET p1 == s1[1]
        q1 == s1[2]
        p2 == s2[1]
        q2 == s2[2]
        o1 == line_cross_product(p1, q1, p2)
        o2 == line_cross_product(p1, q1, q2)
        o3 == line_cross_product(p2, q2, p1)
        o4 == line_cross_product(p2, q2, q1)
    IN  IF o1 # 0 /\ o2 # 0 /\ o3 # 0 /\ o4 # 0
        THEN relationship_general(o1, o2, o3, o4)
        ELSE IF o1 = 0 /\ o2 = 0
        THEN relationship_collinear(p1, q1, p2, q2)
        ELSE relationship_touching(p1, q1, p2, q2, o1, o2, o4)

(***************************************************************************)
(* The classifier specification: both functions applied to every pair of   *)
(* segments with endpoints on the grid, zero-length segments included.     *)
(***************************************************************************)
Segments == Grid \X Grid

InitRel ==
    /\ pc = "relationship_between_segments"
    /\ seg1 \in Segments
    /\ seg2 \in Segments
    /\ rel = ""
    /\ meets = FALSE
    /\ NoPoints
    /\ NoSweep
    /\ NoDir
    /\ NoGraph

RelationshipBetweenSegments ==
    /\ pc = "relationship_between_segments"
    /\ rel' = relationship_between_segments(seg1, seg2)
    /\ pc' = "do_intersect"
    /\ UNCHANGED <<seg1, seg2, meets, pointVars, sweepVars, dirVars, graphVars>>

DoIntersect ==
    /\ pc = "do_intersect"
    /\ meets' = do_intersect(seg1, seg2)
    /\ pc' = "rel_done"
    /\ UNCHANGED <<seg1, seg2, rel, pointVars, sweepVars, dirVars, graphVars>>

NextRel == RelationshipBetweenSegments \/ DoIntersect

SpecRel == InitRel /\ [][NextRel]_vars

(***************************************************************************)
(* What it is for two closed segments to have a point in common, from the  *)
(* parametric form p + t (q - p), 0 <= t <= 1, of a segment.               *)
(***************************************************************************)
Minus(a, b) == <<a[1] - b[1], a[2] - b[2]>>
Cross(u, v) == u[1] * v[2] - u[2] * v[1]
Dot(u, v) == u[1] * v[1] + u[2] * v[2]

\* 0 <= n / d <= 1 for d # 0.
UnitFraction(n, d) == IF d > 0 THEN 0 <= n /\ n <= d ELSE d <= n /\ n <= 0

\* The point p is p2 + u (q2 - p2) for some 0 <= u <= 1.
PointOn(p, s) ==
    LET d == Minus(s[2], s[1])
        w == Minus(p, s[1])
    IN  IF d = <<0, 0>> THEN p = s[1]
        ELSE Cross(w, d) = 0 /\ 0 <= Dot(w, d) /\ Dot(w, d) <= Dot(d, d)

HaveCommonPoint(s1, s2) ==
    LET d1 == Minus(s1[2], s1[1])
        d2 == Minus(s2[2], s2[1])
        w == Minus(s2[1], s1[1])
        D == Cross(d1, d2)
    IN  IF D # 0
        THEN UnitFraction(Cross(w, d2), D) /\ UnitFraction(Cross(w, d1), D)
        ELSE IF d1 = <<0, 0>> THEN PointOn(s1[1], s2)
        ELSE IF d2 = <<0, 0>> THEN PointOn(s2[1], s1)
        ELSE /\ Cross(w, d1) = 0
             /\ LET a == Dot(w, d1)
                    b == Dot(Minus(s2[2], s1[1]), d1)
                IN  Max(0, Min(a, b)) <= Min(Dot(d1, d1), Max(a, b))

ZeroLength(s) == s[1] = s[2]

Orientations(s1, s2) ==
    << line_cross_product(s1[1], s1[2], s2[1]),
       line_cross_product(s1[1], s1[2], s2[2]),
       line_cross_product(s2[1], s2[2], s1[1]),
       line_cross_product(s2[1], s2[2], s1[2]) >>

(***************************************************************************)
(* C4: relationship_between_segments gives the same class for (a, b) and   *)
(* for (b, a), zero-length segments included.                              *)
(***************************************************************************)
C4_Symmetric ==
    pc = "rel_done" => rel = relationship_between_segments(seg2, seg1)

(***************************************************************************)
(* C7: do_intersect is true exactly when the class is not None.            *)
(***************************************************************************)
C7_FastPathAgrees ==
    pc = "rel_done" => (meets <=> rel # "None")

(***************************************************************************)
(* C8: do_intersect is true exactly when the two closed segments have a    *)
(* point in common.                                                        *)
(***************************************************************************)
C8_MeetsIffCommonPoint ==
    pc = "rel_done" => (meets <=> HaveCommonPoint(seg1, seg2))

\* Two segments that cross in a single interior point of both.
C8_Witness ==
    /\ pc = "rel_done"
    /\ meets
    /\ \A i \in 1..4 : Orientations(seg1, seg2)[i] # 0

(***************************************************************************)
(* C9: the class is Proper exactly when the four orientations are nonzero, *)
(* o1, o2 of opposite signs and o3, o4 of opposite signs; it is None when  *)
(* the four are nonzero and a pair has equal signs.                        *)
(***************************************************************************)
C9_ProperIffStraddle ==
    pc = "rel_done" =>
        LET o == Orientations(seg1, seg2)
            nonzero == \A i \in 1..4 : o[i] # 0
        IN  /\ rel = "Proper" <=>
                  (nonzero /\ o[1] * o[2] < 0 /\ o[3] * o[4] < 0)
            /\ (nonzero /\ (o[1] * o[2] > 0 \/ o[3] * o[4] > 0)) => rel = "None"

C9_Witness ==
    /\ pc = "rel_done"
    /\ rel = "None"
    /\ LET o == Orientations(seg1, seg2)
       IN  (\A i \in 1..4 : o[i] # 0) /\ o[1] * o[2] < 0 /\ o[3] * o[4] > 0

\* On one line two closed segments share exactly one point, an endpoint of
\* both, iff some endpoint of one equals some endpoint of the other and no
\* further endpoint of either lies on the other segment.
OneCommonEndpoint(s1, s2) ==
    /\ \A i \in 1..2 : line_cross_product(s1[1], s1[2], s2[i]) = 0
    /\ \A i \in 1..2 : line_cross_product(s2[1], s2[2], s1[i]) = 0
    /\ \E c \in {s1[1], s1[2]} \cap {s2[1], s2[2]} :
          /\ \A e \in {s1[1], s1[2]} : PointOn(e, s2) => e = c
          /\ \A e \in {s2[1], s2[2]} : PointOn(e, s1) => e = c

(***************************************************************************)
(* C10: two segments with four collinear endpoints and exactly one common  *)
(* point, an endpoint of both, are MutualEndpoint and never Collinear.     *)
(***************************************************************************)
C10_CollinearEndpointIsMutual ==
    (pc = "rel_done" /\ OneCommonEndpoint(seg1, seg2)) => rel = "MutualEndpoint"

\* The segment with its two endpoints exchanged.
Swapped(s) == <<s[2], s[1]>>

(***************************************************************************)
(* C11: exchanging the two endpoints of either argument leaves the class   *)
(* returned by relationship_between_segments unchanged.                    *)
(***************************************************************************)
C11_EndpointSwapInvariant ==
    pc = "rel_done" =>
        /\ rel = relationship_between_segments(Swapped(seg1), seg2)
        /\ rel = relationship_between_segments(seg1, Swapped(seg2))

\* Two overlapping segments of one line, the first given from its larger
\* endpoint to its smaller one.
C11_Witness ==
    /\ pc = "rel_done"
    /\ rel = "Collinear"
    /\ ~ZeroLength(seg1) /\ ~ZeroLength(seg2)
    /\ PointLess(seg1[2], seg1[1])

\* What the claim states of the class r returned for a zero-length segment
\* at the point p and a segment s.
ZeroLengthClass(r, p, s) ==
    /\ r = "None" <=> ~PointOn(p, s)
    /\ PointOn(p, s) => r \in {"MutualEndpoint", "Collinear"}

(***************************************************************************)
(* C18: for a zero-length segment (p, p) and any segment s, in either      *)
(* argument order, the class is None if and only if p does not lie on s,   *)
(* and MutualEndpoint or Collinear when p lies on s.                       *)
(***************************************************************************)
C18_ZeroLengthByTouch ==
    pc = "rel_done" =>
        /\ ZeroLength(seg1) => ZeroLengthClass(rel, seg1[1], seg2)
        /\ ZeroLength(seg2) => ZeroLengthClass(rel, seg2[1], seg1)

\* The endpoints with zero orientation, each paired with the other segment.
ZeroOrientationEndpoints(s1, s2) ==
    {<<s2[k], s1>> : k \in {l \in 1..2 : line_cross_product(s1[1], s1[2], s2[l]) = 0}}
    \cup
    {<<s1[k], s2>> : k \in {l \in 1..2 : line_cross_product(s2[1], s2[2], s1[l]) = 0}}

\* Two segments of nonzero length, not all four endpoints on one line, some
\* orientation zero.
TouchingCase(s1, s2) ==
    /\ ~ZeroLength(s1) /\ ~ZeroLength(s2)
    /\ \E k \in 1..4 : Orientations(s1, s2)[k] # 0
    /\ \E k \in 1..4 : Orientations(s1, s2)[k] = 0

(***************************************************************************)
(* C19: for two segments of nonzero length, not all collinear, with some   *)
(* orientation zero, the class is OneSided iff the endpoint with zero      *)
(* orientation lies on the other segment and is neither of its endpoints,  *)
(* MutualEndpoint iff it is an endpoint of the other segment, and None iff *)
(* it lies on the other segment's line outside the segment.                *)
(***************************************************************************)
C19_TouchingClasses ==
    (pc = "rel_done" /\ TouchingCase(seg1, seg2)) =>
        LET Z == ZeroOrientationEndpoints(seg1, seg2)
        IN  /\ rel = "OneSided" <=>
                  \A es \in Z : PointOn(es[1], es[2]) /\ es[1] \notin {es[2][1], es[2][2]}
            /\ rel = "MutualEndpoint" <=>
                  \A es \in Z : es[1] \in {es[2][1], es[2][2]}
            /\ rel = "None" <=> \A es \in Z : ~PointOn(es[1], es[2])

\* The first segment's second endpoint lies inside the second segment, and
\* no other orientation is zero.
C19_Witness ==
    /\ pc = "rel_done"
    /\ TouchingCase(seg1, seg2)
    /\ rel = "OneSided"
    /\ LET o == Orientations(seg1, seg2)
       IN  o[1] # 0 /\ o[2] # 0 /\ o[3] # 0 /\ o[4] = 0

(***************************************************************************)
(* plane::line: the sweep.  Event and its order, ActiveSegment and its     *)
(* order, the BTreeSet of active segments, find_intersecting_segments_by.  *)
(*                                                                         *)
(* Segment ids are the positions 1..n of the slice (the code counts from   *)
(* 0).  Coordinates are f64 in the code and integers here; y(x) is kept as *)
(* an exact fraction, which is what the f64 division gives whenever the    *)
(* x-extent of a segment is a power of two.                                *)
(***************************************************************************)
\* Lines 255-270: the two events of segment i; the endpoint with the smaller
\* x is the start.
events_of(segs) ==
    {[x |-> Min(segs[i][1][1], segs[i][2][1]), is_start |-> TRUE, id |-> i] :
        i \in 1..Len(segs)} \cup
    {[x |-> Max(segs[i][1][1], segs[i][2][1]), is_start |-> FALSE, id |-> i] :
        i \in 1..Len(segs)}

\* cmpf64 on integers.
cmpf64(a, b) == IF a < b THEN "Less" ELSE IF a > b THEN "Greater" ELSE "Equal"

\* bool::cmp: false < true.
bool_cmp(a, b) ==
    IF a = b THEN "Equal" ELSE IF b THEN "Less" ELSE "Greater"

\* An order of events with the ends of an x before its starts.
event_cmp_end_first(self, other) ==
    IF self.x # other.x THEN cmpf64(self.x, other.x)
    ELSE bool_cmp(self.is_start, other.is_start)

\* An order of events by x alone, events of one x in any order.
event_cmp_by_x_only(self, other) == cmpf64(self.x, other.x)

\* Ord for Event.
event_cmp(self, other) ==
    IF self.x # other.x THEN cmpf64(self.x, other.x)
    ELSE bool_cmp(other.is_start, self.is_start)

\* Segment::y, as the fraction <<numerator, denominator>>, denominator > 0.
segment_y(seg, x) ==
    IF seg[1][1] = seg[2][1] THEN <<seg[1][2], 1>>
    ELSE LET dx == seg[2][1] - seg[1][1]
             n == seg[1][2] * dx + (x - seg[1][1]) * (seg[2][2] - seg[1][2])
         IN  IF dx > 0 THEN <<n, dx>> ELSE <<-n, -dx>>

\* cmpf64 on two fractions with positive denominators.
cmp_fractions(a, b) == cmpf64(a[1] * b[2], b[1] * a[2])

\* The y values of both at the earlier of the two starts.
cmp_at_earlier_start(self, other) ==
    LET x == Min(Min(self[1][1], self[2][1]), Min(other[1][1], other[2][1]))
    IN  cmp_fractions(segment_y(self, x), segment_y(other, x))

\* Segment::cmp_at_start: the y values of both at the later of the two starts.
cmp_at_start(self, other) ==
    LET x == Max(Min(self[1][1], self[2][1]), Min(other[1][1], other[2][1]))
    IN  cmp_fractions(segment_y(self, x), segment_y(other, x))

\* Ord for ActiveSegment, on the ids i and j of two segments of segs.
active_cmp(segs, i, j) ==
    LET c == cmp_at_start(segs[i], segs[j])
    IN  IF c = "Equal" THEN cmpf64(i, j) ELSE c

\* The BTreeSet's search for key i in a node: the index of the first key that
\* i is not Greater than, Len + 1 when there is none.  With at most 11
\* elements the set is a single node, searched from the left.
RECURSIVE find_key_index(_, _, _, _)
find_key_index(segs, active, i, k) ==
    IF k > Len(active) THEN k
    ELSE IF active_cmp(segs, i, active[k]) = "Greater"
         THEN find_key_index(segs, active, i, k + 1)
         ELSE k

\* BTreeSet::insert at the index the search ends at; the key itself is
\* replaced when the search finds it.
btree_insert(segs, active, i) ==
    LET k == find_key_index(segs, active, i, 1)
    IN  IF k <= Len(active) /\ active_cmp(segs, i, active[k]) = "Equal"
        THEN active
        ELSE SubSeq(active, 1, k - 1) \o <<i>> \o SubSeq(active, k, Len(active))

\* BTreeSet::remove: removes the key the search finds, nothing otherwise.
btree_remove(segs, active, i) ==
    LET k == find_key_index(segs, active, i, 1)
    IN  IF k <= Len(active) /\ active_cmp(segs, i, active[k]) = "Equal"
        THEN SubSeq(active, 1, k - 1) \o SubSeq(active, k + 1, Len(active))
        ELSE active

\* A call of the function pointer do_intersect, named by the function: the
\* boolean test that find_intersecting_segments passes, and the closure of
\* tests::find_intersecting_segments_by.
apply_predicate(f, a, b) ==
    CASE f = "do_intersect" -> do_intersect(a, b)
      [] f = "proper_collinear_onesided" ->
            relationship_between_segments(a, b) \in {"Proper", "Collinear", "OneSided"}

Predicates == {"do_intersect", "proper_collinear_onesided"}

\* A start event that reports its predecessor with the test of its successor.
start_event_wrong_pair(segs, f, active, i) ==
    LET k == find_key_index(segs, active, i, 1)
    IN  IF k <= Len(active) /\ apply_predicate(f, segs[i], segs[active[k]])
        THEN <<"Some", i, IF k > 1 THEN active[k - 1] ELSE i>>
        ELSE IF k > 1 /\ apply_predicate(f, segs[i], segs[active[k - 1]])
        THEN <<"Some", i, active[k - 1]>>
        ELSE <<>>

\* Lines 280-289: what a start event returns, <<>> when the loop goes on.
start_event_result(segs, f, active, i) ==
    LET k == find_key_index(segs, active, i, 1)
    IN  IF k <= Len(active) /\ apply_predicate(f, segs[i], segs[active[k]])
        THEN <<"Some", i, active[k]>>
        ELSE IF k > 1 /\ apply_predicate(f, segs[i], segs[active[k - 1]])
        THEN <<"Some", i, active[k - 1]>>
        ELSE <<>>

\* Lines 292-300: what an end event returns, <<>> when the loop goes on.
end_event_result(segs, f, active, i) ==
    LET k == find_key_index(segs, active, i, 1)
    IN  IF k > Len(active) THEN <<"panic">>
        ELSE IF /\ k + 1 <= Len(active)
                /\ k > 1
                /\ apply_predicate(f, segs[active[k + 1]], segs[active[k - 1]])
        THEN <<"Some", active[k + 1], active[k - 1]>>
        ELSE <<>>

(***************************************************************************)
(* The sweep specification: find_intersecting_segments_by on every list of *)
(* at most MaxSegments segments of the sweep grid, one event per step.     *)
(* sort_unstable leaves the order of equal events open: each step takes    *)
(* any least event of those left.                                          *)
(***************************************************************************)
SweepGrid == (0..SweepMaxX) \X (0..SweepMaxY)

\* The segment lists of the tests of line.rs; the lists with decimal
\* coordinates (0.1, 0.9) are scaled by 10 to integers.
TestCross == << <<<<0, 0>>, <<1, 1>>>>, <<<<0, 1>>, <<1, 0>>>> >>

TestCrossInBox ==
    << <<<<0, 0>>, <<10, 10>>>>, <<<<0, 10>>, <<10, 0>>>>,
       <<<<1, 0>>, <<9, 0>>>>, <<<<1, 10>>, <<9, 10>>>>,
       <<<<0, 1>>, <<0, 9>>>>, <<<<10, 1>>, <<10, 9>>>> >>

TestChainInBox ==
    << <<<<1, 0>>, <<9, 0>>>>, <<<<1, 10>>, <<9, 10>>>>,
       <<<<0, 1>>, <<0, 9>>>>, <<<<10, 1>>, <<10, 9>>>>,
       <<<<0, 0>>, <<10, 10>>>>, <<<<10, 10>>, <<20, 20>>>> >>

TestThreeLines ==
    << <<<<1, 4>>, <<9, 0>>>>, <<<<0, 2>>, <<10, 2>>>>, <<<<1, 0>>, <<9, 4>>>> >>

TestChain == << <<<<0, 0>>, <<1, 1>>>>, <<<<1, 1>>, <<2, 2>>>> >>

TestFan == << <<<<0, 0>>, <<1, 1>>>>, <<<<0, 0>>, <<1, 0>>>> >>

TestSegmentLists ==
    {TestCross, TestCrossInBox, TestChainInBox, TestThreeLines, TestChain, TestFan}

IsSweepInput(s) ==
    IsSeqUpTo(s, SweepGrid \X SweepGrid, MaxSegments) \/ s \in TestSegmentLists

InitSweep ==
    /\ pc = "find_intersecting_segments_by"
    /\ IsSweepInput(segments)
    /\ predicate \in Predicates
    /\ events = {}
    /\ active_segments = <<>>
    /\ result = <<>>
    /\ NoPoints
    /\ NoRel
    /\ NoGraph
    /\ NoDir

\* Lines 254-273.
BuildEvents ==
    /\ pc = "find_intersecting_segments_by"
    /\ events' = events_of(segments)
    /\ active_segments' = <<>>
    /\ pc' = "sweep"
    /\ UNCHANGED <<segments, predicate, result, pointVars, relVars, dirVars, graphVars>>

IsNextEvent(e) == e \in events /\ \A f \in events : event_cmp(f, e) # "Less"

\* Lines 279-290.
StartEvent ==
    /\ pc = "sweep"
    /\ \E e \in events :
          /\ IsNextEvent(e)
          /\ e.is_start
          /\ LET r == start_event_result(segments, predicate, active_segments, e.id)
             IN  IF r # <<>>
                 THEN /\ result' = r
                      /\ pc' = "returned"
                      /\ UNCHANGED <<events, active_segments>>
                 ELSE /\ active_segments' = btree_insert(segments, active_segments, e.id)
                      /\ events' = events \ {e}
                      /\ UNCHANGED <<pc, result>>
    /\ UNCHANGED <<segments, predicate, pointVars, relVars, dirVars, graphVars>>

\* Lines 291-302.
EndEvent ==
    /\ pc = "sweep"
    /\ \E e \in events :
          /\ IsNextEvent(e)
          /\ ~e.is_start
          /\ LET r == end_event_result(segments, predicate, active_segments, e.id)
             IN  IF r # <<>>
                 THEN /\ result' = r
                      /\ pc' = "returned"
                      /\ UNCHANGED <<events, active_segments>>
                 ELSE /\ active_segments' = btree_remove(segments, active_segments, e.id)
                      /\ events' = events \ {e}
                      /\ UNCHANGED <<pc, result>>
    /\ UNCHANGED <<segments, predicate, pointVars, relVars, dirVars, graphVars>>

\* Line 304.
ReturnNone ==
    /\ pc = "sweep"
    /\ events = {}
    /\ result' = <<"None">>
    /\ pc' = "returned"
    /\ UNCHANGED <<segments, predicate, events, active_segments, pointVars, relVars, dirVars, graphVars>>

NextSweep == BuildEvents \/ StartEvent \/ EndEvent \/ ReturnNone

SpecSweep == InitSweep /\ [][NextSweep]_vars

SomePairSatisfies ==
    \E i, j \in 1..Len(segments) :
        i # j /\ apply_predicate(predicate, segments[i], segments[j])

SomePairIntersects ==
    \E i, j \in 1..Len(segments) :
        i # j /\ do_intersect(segments[i], segments[j])

(***************************************************************************)
(* C5: a returned pair (i, j) is a pair of valid, distinct indices with    *)
(* predicate(segments[i], segments[j]); so the sweep returns None when no  *)
(* two segments satisfy the predicate.                                     *)
(***************************************************************************)
C5_Sound ==
    pc = "returned" =>
        /\ result[1] = "Some" =>
              /\ result[2] \in 1..Len(segments)
              /\ result[3] \in 1..Len(segments)
              /\ result[2] # result[3]
              /\ apply_predicate(predicate, segments[result[2]], segments[result[3]])
        /\ ~SomePairSatisfies => result = <<"None">>

\* An end event found the pair, under a predicate that is not symmetric in
\* every pair it is given.
C5_Witness ==
    /\ pc = "returned"
    /\ result[1] = "Some"
    /\ \E e \in events : ~e.is_start /\ IsNextEvent(e)
    /\ predicate = "proper_collinear_onesided"
    /\ ~ZeroLength(segments[result[2]])
    /\ ~ZeroLength(segments[result[3]])

RelatedPairs ==
    {pr \in SUBSET (1..Len(segments)) :
        /\ Cardinality(pr) = 2
        /\ \E i, j \in pr :
              /\ i # j
              /\ relationship_between_segments(segments[i], segments[j]) # "None"}

(***************************************************************************)
(* C17: if exactly one unordered pair of the input segments has a          *)
(* relationship other than None and every other pair is disjoint,          *)
(* find_intersecting_segments returns that pair, in one order or the       *)
(* other, wherever the pair sits in the list.                              *)
(***************************************************************************)
C17_UniquePairFound ==
    (pc = "returned" /\ predicate = "do_intersect" /\ Cardinality(RelatedPairs) = 1) =>
        /\ result[1] = "Some"
        /\ {result[2], result[3]} \in RelatedPairs

\* The ids whose start event, and whose end event, has been processed.
StartProcessed == {i \in 1..Len(segments) : \A e \in events : ~(e.id = i /\ e.is_start)}
EndProcessed == {i \in 1..Len(segments) : \A e \in events : e.id # i}

SegMinX(s) == Min(s[1][1], s[2][1])
SegMaxX(s) == Max(s[1][1], s[2][1])

\* a ends at the x where b starts, and the two have exactly one common point,
\* an endpoint of both.
ChainPair(a, b) ==
    /\ SegMaxX(a) = SegMinX(b)
    /\ \E c \in {a[1], a[2]} \cap {b[1], b[2]} : c[1] = SegMaxX(a)
    /\ \/ Cross(Minus(a[2], a[1]), Minus(b[2], b[1])) # 0
       \/ OneCommonEndpoint(a, b)

\* The step processes the event e: it is taken from the events left and the
\* loop goes on.
Processes(e) == pc = "sweep" /\ e \in events /\ events' = events \ {e}

C27_ActiveSetExact ==
    pc = "sweep" => Range(active_segments) = StartProcessed \ EndProcessed

(***************************************************************************)
(* The order of the active segments: ActiveSegment::cmp applied to every   *)
(* ordered pair of three segments of the order grid, whose ids are their   *)
(* positions in the list.                                                  *)
(***************************************************************************)
OrderGrid == (0..OrderMaxX) \X (0..OrderMaxY)

InitActiveOrder ==
    /\ pc = "active_cmp"
    /\ segments \in (OrderGrid \X OrderGrid) \X (OrderGrid \X OrderGrid) \X (OrderGrid \X OrderGrid)
    /\ predicate = ""
    /\ events = {}
    /\ active_segments = <<>>
    /\ result = <<>>
    /\ directions = <<>>
    /\ orderings = <<>>
    /\ NoPoints
    /\ NoRel
    /\ NoGraph

\* orderings[k][l] is the cmp of the active segment k with the active
\* segment l.
ActiveSegmentCmp ==
    /\ pc = "active_cmp"
    /\ orderings' = [k \in 1..3 |-> [l \in 1..3 |-> active_cmp(segments, k, l)]]
    /\ pc' = "active_cmp_done"
    /\ UNCHANGED <<directions, pointVars, relVars, sweepVars, graphVars>>

NextActiveOrder == ActiveSegmentCmp

SpecActiveOrder == InitActiveOrder /\ [][NextActiveOrder]_vars

\* The segments of ids in S are simultaneously active: some x is in the
\* x-extent of each.
SimultaneouslyActive(S) ==
    \A i, j \in S : SegMinX(segments[i]) <= SegMaxX(segments[j])

PairwiseDisjoint(S) ==
    \A i, j \in S : i # j => ~HaveCommonPoint(segments[i], segments[j])

\* The least and the greatest y of the points of s with abscissa x, as
\* fractions with a positive denominator; x is in the x-extent of s.
YLow(s, x) ==
    IF s[1][1] = s[2][1] THEN <<Min(s[1][2], s[2][2]), 1>>
    ELSE LET l == IF s[1][1] < s[2][1] THEN s[1] ELSE s[2]
             r == IF s[1][1] < s[2][1] THEN s[2] ELSE s[1]
         IN  <<l[2] * (r[1] - x) + r[2] * (x - l[1]), r[1] - l[1]>>

YHigh(s, x) ==
    IF s[1][1] = s[2][1] THEN <<Max(s[1][2], s[2][2]), 1>> ELSE YLow(s, x)

\* At the later of the two starts, a is below b.
BelowAtLaterStart(a, b) ==
    LET x == Max(SegMinX(a), SegMinX(b))
        h == YHigh(a, x)
        l == YLow(b, x)
    IN  h[1] * l[2] < l[1] * h[2]

Reverse(o) == CASE o = "Less" -> "Greater" [] o = "Greater" -> "Less" [] OTHER -> o

signum(n) == IF n > 0 THEN 1 ELSE IF n < 0 THEN -1 ELSE 0

same_signum(self, other) ==
    signum(self[1]) = signum(other[1]) /\ signum(self[2]) = signum(other[2])

\* cmp with Less for two opposite directions whichever half plane self is in.
direction_cmp_opposite_less(self, other) ==
    IF self = <<0, 0>>
    THEN (IF other = <<0, 0>> THEN "Equal" ELSE "Less")
    ELSE IF other = <<0, 0>> THEN "Greater"
    ELSE LET det == self[1] * other[2] - self[2] * other[1]
         IN  IF self[2] >= 0
             THEN CASE det < 0 -> IF other[2] >= 0 THEN "Greater" ELSE "Less"
                    [] det = 0 -> IF same_signum(self, other) THEN "Equal"
                                  ELSE IF self[2] = 0
                                  THEN (IF self[1] >= 0 THEN "Less" ELSE "Greater")
                                  ELSE "Less"
                    [] det > 0 -> "Less"
             ELSE CASE det < 0 -> "Greater"
                    [] det = 0 -> IF same_signum(self, other) THEN "Equal" ELSE "Less"
                    [] det > 0 -> IF other[2] >= 0 THEN "Greater" ELSE "Less"

\* impl Ord for Direction: cmp.
direction_cmp(self, other) ==
    IF self = <<0, 0>>
    THEN (IF other = <<0, 0>> THEN "Equal" ELSE "Less")
    ELSE IF other = <<0, 0>> THEN "Greater"
    ELSE LET det == self[1] * other[2] - self[2] * other[1]
         IN  IF self[2] >= 0
             THEN CASE det < 0 -> IF other[2] >= 0 THEN "Greater" ELSE "Less"
                    [] det = 0 -> IF same_signum(self, other) THEN "Equal"
                                  ELSE IF self[2] = 0
                                  THEN (IF self[1] >= 0 THEN "Less" ELSE "Greater")
                                  ELSE "Less"
                    [] det > 0 -> "Less"
             ELSE CASE det < 0 -> "Greater"
                    [] det = 0 -> IF same_signum(self, other) THEN "Equal" ELSE "Greater"
                    [] det > 0 -> IF other[2] >= 0 THEN "Greater" ELSE "Less"

(***************************************************************************)
(* The direction specification: cmp applied to every ordered pair of three *)
(* Directions with coordinates of absolute value at most MaxDir.           *)
(***************************************************************************)
Vectors == (-MaxDir..MaxDir) \X (-MaxDir..MaxDir)

InitDirection ==
    /\ pc = "cmp"
    /\ directions \in Vectors \X Vectors \X Vectors
    /\ orderings = <<>>
    /\ NoPoints
    /\ NoRel
    /\ NoGraph
    /\ NoSweep

\* orderings[k][l] is directions[k].cmp(&directions[l]).
DirectionCmp ==
    /\ pc = "cmp"
    /\ orderings' = [k \in 1..3 |->
                        [l \in 1..3 |-> direction_cmp(directions[k], directions[l])]]
    /\ pc' = "cmp_done"
    /\ UNCHANGED <<directions, pointVars, relVars, sweepVars, graphVars>>

NextDirection == DirectionCmp

SpecDirection == InitDirection /\ [][NextDirection]_vars

(***************************************************************************)
(* The polar-angle order, stated without the determinant case analysis of  *)
(* the code: a nonzero vector is in the first half turn when its angle is  *)
(* in [0, pi), in the second when it is in [pi, 2 pi); within a half turn  *)
(* the angle grows counter-clockwise.                                      *)
(***************************************************************************)
HalfTurn(v) == IF v[2] > 0 \/ (v[2] = 0 /\ v[1] > 0) THEN 0 ELSE 1

AngleLess(a, b) ==
    \/ HalfTurn(a) < HalfTurn(b)
    \/ HalfTurn(a) = HalfTurn(b) /\ Cross(a, b) > 0

SameDirection(a, b) == Cross(a, b) = 0 /\ Dot(a, b) > 0

(***************************************************************************)
(* C20: cmp is a total preorder (Less one way iff Greater the other way,   *)
(* Equal both ways, transitive); the zero vector is Less than every        *)
(* nonzero vector; two nonzero vectors are Equal iff they point in the     *)
(* same direction, and otherwise a is Less than b iff the counter-         *)
(* clockwise angle of a from the positive x-axis, in [0, 2 pi), is smaller *)
(* than that of b.                                                         *)
(***************************************************************************)
C20_PolarAngleOrder ==
    pc = "cmp_done" =>
        /\ \A k, l \in 1..3 :
              /\ orderings[k][l] = "Less" <=> orderings[l][k] = "Greater"
              /\ orderings[k][l] = "Equal" <=> orderings[l][k] = "Equal"
        /\ \A k, l, m \in 1..3 :
              (orderings[k][l] # "Greater" /\ orderings[l][m] # "Greater") =>
                  orderings[k][m] # "Greater"
        /\ \A k, l \in 1..3 :
              LET a == directions[k]
                  b == directions[l]
              IN  /\ (a = <<0, 0>> /\ b # <<0, 0>>) => orderings[k][l] = "Less"
                  /\ (a # <<0, 0>> /\ b # <<0, 0>>) =>
                        /\ orderings[k][l] = "Equal" <=> SameDirection(a, b)
                        /\ orderings[k][l] = "Less" <=>
                              (~SameDirection(a, b) /\ AngleLess(a, b))

\* Three nonzero directions of three different angles, the first in the
\* upper half plane and Less than its opposite, the second.
C20_Witness ==
    /\ pc = "cmp_done"
    /\ \A k \in 1..3 : directions[k] # <<0, 0>>
    /\ directions[1][2] > 0
    /\ Cross(directions[1], directions[2]) = 0
    /\ Dot(directions[1], directions[2]) < 0
    /\ orderings[1][2] = "Less"
    /\ orderings[2][3] = "Less"
    /\ orderings[1][3] = "Less"

(***************************************************************************)
(* eulerian: find_eulerian_circuit.  A matrix of n rows is a function on   *)
(* 0..n-1 of functions on 0..n-1; an Option<usize> is the index, or None.  *)
(***************************************************************************)
None == -1

Vertices(m) == DOMAIN m

RECURSIVE SumOver(_, _)
SumOver(f, S) ==
    IF S = {} THEN 0
    ELSE LET x == CHOOSE y \in S : TRUE IN f[x] + SumOver(f, S \ {x})

\* row.iter().sum()
row_sum(row) == SumOver(row, DOMAIN row)

\* Lines 24-27.
all_degrees_even(m) == \A i \in Vertices(m) : row_sum(m[i]) % 2 = 0

SetMin(S) == CHOOSE x \in S : \A y \in S : x <= y
SetMax(S) == CHOOSE x \in S : \A y \in S : x >= y

\* Lines 34-50: the list of row i links the columns j with adj_matrix[i][j] > 0
\* in increasing order; every other node keeps its default.
initial_neighbors(m) ==
    [i \in Vertices(m) |->
        [j \in Vertices(m) |->
            IF m[i][j] > 0
            THEN LET before == {k \in Vertices(m) : k < j /\ m[i][k] > 0}
                     after == {k \in Vertices(m) : k > j /\ m[i][k] > 0}
                 IN  [value |-> m[i][j],
                      prev |-> IF before = {} THEN None ELSE SetMax(before),
                      next |-> IF after = {} THEN None ELSE SetMin(after)]
            ELSE [value |-> 0, prev |-> None, next |-> None]]]

initial_heads(m) ==
    [i \in Vertices(m) |->
        LET cols == {j \in Vertices(m) : m[i][j] > 0}
        IN  IF cols = {} THEN None ELSE SetMin(cols)]

\* Lines 63-70 for (v, u), lines 72-79 for (u, v): the node u leaves the list
\* of v.  The result is the pair of neighbors and heads.
unlink(nb, hd, v, u) ==
    LET node == nb[v][u]
        nb1 == IF node.prev # None
               THEN [nb EXCEPT ![v][node.prev].next = node.next]
               ELSE nb
        hd1 == IF node.prev # None THEN hd ELSE [hd EXCEPT ![v] = node.next]
        nb2 == IF node.next # None
               THEN [nb1 EXCEPT ![v][node.next].prev = node.prev]
               ELSE nb1
    IN  [neighbors |-> nb2, heads |-> hd1]

\* Lines 60-80: the edge from v to its head u is traversed once.
traverse(nb, hd, v, u) ==
    LET nb1 == [nb EXCEPT ![v][u].value = @ - 1]
        nb2 == [nb1 EXCEPT ![u][v].value = @ - 1]
    IN  IF nb2[v][u].value = 0
        THEN LET first == unlink(nb2, hd, v, u)
             IN  unlink(first.neighbors, first.heads, u, v)
        ELSE [neighbors |-> nb2, heads |-> hd]

(***************************************************************************)
(* The Eulerian specification: find_eulerian_circuit on every symmetric    *)
(* matrix with a zero diagonal, of at most MaxVertices vertices and at     *)
(* most MaxMult parallel edges between two vertices; one iteration of the  *)
(* while loop per step.                                                    *)
(***************************************************************************)
VertexPairs(n) == {pr \in (0..(n - 1)) \X (0..(n - 1)) : pr[1] < pr[2]}

MatrixOf(n, w) ==
    [i \in 0..(n - 1) |->
        [j \in 0..(n - 1) |->
            IF i = j THEN 0 ELSE w[<<Min(i, j), Max(i, j)>>]]]

InitEulerian ==
    /\ pc = "find_eulerian_circuit"
    /\ \E n \in 0..MaxVertices :
          \E w \in [VertexPairs(n) -> 0..MaxMult] : adj_matrix = MatrixOf(n, w)
    /\ neighbors = <<>>
    /\ heads = <<>>
    /\ stack = <<>>
    /\ cycle = <<>>
    /\ circuit = <<>>
    /\ NoLca
    /\ NoPoints
    /\ NoRel
    /\ NoSweep
    /\ NoDir

\* Lines 23-54.
EulerianBuild ==
    /\ pc = "find_eulerian_circuit"
    /\ IF ~all_degrees_even(adj_matrix)
       THEN /\ circuit' = <<"None">>
            /\ pc' = "circuit_done"
            /\ UNCHANGED <<neighbors, heads, stack, cycle>>
       ELSE /\ neighbors' = initial_neighbors(adj_matrix)
            /\ heads' = initial_heads(adj_matrix)
            /\ stack' = <<0>>
            /\ cycle' = <<>>
            /\ pc' = "circuit_loop"
            /\ UNCHANGED circuit
    /\ UNCHANGED <<adj_matrix, lcaVars, pointVars, relVars, sweepVars, dirVars>>

\* Line 59 with no vertex: heads is empty and heads[0] is out of bounds.
EulerianPanic ==
    /\ pc = "circuit_loop"
    /\ stack # <<>>
    /\ stack[Len(stack)] \notin DOMAIN heads
    /\ pc' = "panicked"
    /\ UNCHANGED <<eulerVars, lcaVars, pointVars, relVars, sweepVars, dirVars>>

\* Lines 56-81: the vertex on top of the stack has an edge left.
EulerianPush ==
    /\ pc = "circuit_loop"
    /\ stack # <<>>
    /\ LET v == stack[Len(stack)]
       IN  /\ v \in DOMAIN heads
           /\ heads[v] # None
           /\ \E r \in {traverse(neighbors, heads, v, heads[v])} :
                 /\ neighbors' = r.neighbors
                 /\ heads' = r.heads
           /\ stack' = Append(stack, heads[v])
    /\ UNCHANGED <<pc, adj_matrix, cycle, circuit, lcaVars, pointVars, relVars,
                   sweepVars, dirVars>>

\* Lines 56-59 and 82-86: it has none.
EulerianPop ==
    /\ pc = "circuit_loop"
    /\ stack # <<>>
    /\ LET v == stack[Len(stack)]
       IN  /\ v \in DOMAIN heads
           /\ heads[v] = None
           /\ stack' = Pop(stack)
           /\ cycle' = Append(cycle, v)
    /\ UNCHANGED <<pc, adj_matrix, neighbors, heads, circuit, lcaVars, pointVars,
                   relVars, sweepVars, dirVars>>

\* Lines 89-94.
EulerianReturn ==
    /\ pc = "circuit_loop"
    /\ stack = <<>>
    /\ circuit' = IF \A i \in DOMAIN heads : heads[i] = None
                  THEN <<"Some", cycle>>
                  ELSE <<"None">>
    /\ pc' = "circuit_done"
    /\ UNCHANGED <<adj_matrix, neighbors, heads, stack, cycle, lcaVars, pointVars,
                   relVars, sweepVars, dirVars>>

NextEulerian ==
    EulerianBuild \/ EulerianPanic \/ EulerianPush \/ EulerianPop \/ EulerianReturn

SpecEulerian == InitEulerian /\ [][NextEulerian]_vars

\* The vertices that have an edge.
Touched(m) == {v \in Vertices(m) : \E u \in Vertices(m) : m[v][u] > 0}

\* The vertices joined to a vertex of S by a path of edges.
RECURSIVE ReachFrom(_, _)
ReachFrom(m, S) ==
    LET T == S \cup {u \in Vertices(m) : \E v \in S : m[v][u] > 0}
    IN  IF T = S THEN S ELSE ReachFrom(m, T)

EdgesConnected(m) ==
    \A v \in Touched(m) : Touched(m) \subseteq ReachFrom(m, {v})

HasEulerianCircuit(m) ==
    /\ \A v \in Vertices(m) : SumOver(m[v], Vertices(m)) % 2 = 0
    /\ EdgesConnected(m)

\* c is a closed walk along edges that traverses the edge {u, v} m[u][v] times.
IsEulerianCircuit(c, m) ==
    /\ Len(c) >= 1
    /\ Range(c) \subseteq Vertices(m)
    /\ c[1] = c[Len(c)]
    /\ \A i \in 1..(Len(c) - 1) : m[c[i]][c[i + 1]] > 0
    /\ \A u, v \in Vertices(m) :
          u < v =>
              Cardinality({i \in 1..(Len(c) - 1) : {c[i], c[i + 1]} = {u, v}})
                  = m[u][v]

(***************************************************************************)
(* C21: on a symmetric matrix with a zero diagonal, of any number of       *)
(* vertices, find_eulerian_circuit does not panic, returns Some(c) exactly *)
(* when every vertex has an even degree and all the edges are in one       *)
(* connected component, and then c is a closed walk along edges that       *)
(* traverses every edge {u, v} adj_matrix[u][v] times.                     *)
(***************************************************************************)
C21_FindsEulerianCircuit ==
    /\ pc # "panicked"
    /\ pc = "circuit_done" =>
          /\ circuit[1] = "Some" <=> HasEulerianCircuit(adj_matrix)
          /\ circuit[1] = "Some" => IsEulerianCircuit(circuit[2], adj_matrix)

(***************************************************************************)
(* lca: Lca::new, dfs_lca and Lca::lca.  tree is a function on 0..n-1 of   *)
(* lists of vertices; up[v] is a function on 0..log_n-1, depth a function  *)
(* on 0..n-1.                                                              *)
(***************************************************************************)
\* (n as f64).log2().ceil() as usize, for n >= 1: the least k with 2^k >= n.
RECURSIVE ceil_log2_from(_, _)
ceil_log2_from(n, k) == IF 2 ^ k >= n THEN k ELSE ceil_log2_from(n, k + 1)

ceil_log2(n) == ceil_log2_from(n, 0)

\* up[v].len()
up_len(u, v) == Cardinality(DOMAIN u[v])

\* Lines 57-59, from index i on.
RECURSIVE fill_up(_, _, _)
fill_up(u, v, i) ==
    IF i >= up_len(u, v) THEN u
    ELSE fill_up([u EXCEPT ![v][i] = u[u[v][i - 1]][i - 1]], v, i + 1)

\* dfs_lca, and its loop over tree[v] from position i on (lines 61-65); the
\* result is the pair of up and depth.
RECURSIVE dfs_lca(_, _, _, _, _, _)
RECURSIVE dfs_lca_children(_, _, _, _, _, _, _)
dfs_lca(v, p, height, t, u, d) ==
    LET u1 == [u EXCEPT ![v][0] = p]
        d1 == [d EXCEPT ![v] = height]
    IN  dfs_lca_children(v, p, height, t, fill_up(u1, v, 1), d1, 1)

dfs_lca_children(v, p, height, t, u, d, i) ==
    IF i > Len(t[v]) THEN [up |-> u, depth |-> d]
    ELSE LET child == t[v][i]
         IN  IF child # p
             THEN LET r == dfs_lca(child, v, height + 1, t, u, d)
                  IN  dfs_lca_children(v, p, height, t, r.up, r.depth, i + 1)
             ELSE dfs_lca_children(v, p, height, t, u, d, i + 1)

\* usize::saturating_sub
saturating_sub(x, y) == IF x >= y THEN x - y ELSE 0

\* Lines 25-29, from k down to 0: a is lifted to the depth of b.
RECURSIVE lca_lift(_, _, _, _, _)
lca_lift(u, d, a, b, k) ==
    IF k < 0 THEN a
    ELSE lca_lift(u, d,
                  IF saturating_sub(d[a], 2 ^ k) >= d[b] THEN u[a][k] ELSE a,
                  b, k - 1)

\* Lines 35-40, from k down to 0: a and b are lifted together.
RECURSIVE lca_climb(_, _, _, _)
lca_climb(u, a, b, k) ==
    IF k < 0 THEN <<a, b>>
    ELSE IF u[a][k] # u[b][k]
         THEN lca_climb(u, u[a][k], u[b][k], k - 1)
         ELSE lca_climb(u, a, b, k - 1)

\* Lca::lca
lca(u, d, a0, b0) ==
    LET a == IF d[a0] < d[b0] THEN b0 ELSE a0
        b == IF d[a0] < d[b0] THEN a0 ELSE b0
        a1 == lca_lift(u, d, a, b, up_len(u, a) - 1)
    IN  IF a1 = b THEN a1
        ELSE LET pr == lca_climb(u, a1, b, up_len(u, a1) - 1)
             IN  u[pr[1]][0]

(***************************************************************************)
(* The lca specification: Lca::new on every tree of at most MaxTreeSize    *)
(* vertices, the adjacency lists in increasing or in decreasing order,     *)
(* then Lca::lca on a pair of its vertices.                                *)
(***************************************************************************)
\* The vertex v, following parents, reaches the root 0 in at most k steps.
RECURSIVE ReachesRoot(_, _, _)
ReachesRoot(par, v, k) ==
    IF v = 0 THEN TRUE
    ELSE IF k = 0 THEN FALSE
    ELSE ReachesRoot(par, par[v], k - 1)

RECURSIVE Ascending(_)
Ascending(S) ==
    IF S = {} THEN <<>> ELSE <<SetMin(S)>> \o Ascending(S \ {SetMin(S)})

\* The adjacency lists of the tree in which par[v] is the parent of v # 0.
TreeOf(n, par, decreasing) ==
    [v \in 0..(n - 1) |->
        LET adj == {c \in 1..(n - 1) : par[c] = v} \cup
                   (IF v = 0 THEN {} ELSE {par[v]})
        IN  IF decreasing THEN Rev(Ascending(adj)) ELSE Ascending(adj)]

InitLca ==
    /\ pc = "Lca::new"
    /\ \E n \in 1..MaxTreeSize :
          \E par \in [1..(n - 1) -> 0..(n - 1)] :
              /\ \A v \in 1..(n - 1) : ReachesRoot(par, v, n)
              /\ \E decreasing \in BOOLEAN : tree = TreeOf(n, par, decreasing)
    /\ up = <<>>
    /\ depth = <<>>
    /\ query = <<>>
    /\ answer = -1
    /\ NoEuler
    /\ NoPoints
    /\ NoRel
    /\ NoSweep
    /\ NoDir

\* Lines 9-17.  With log_n = 0 the rows of up are empty and up[v][0] = p, the
\* first statement of dfs_lca, is out of bounds.
LcaNew ==
    /\ pc = "Lca::new"
    /\ LET n == Cardinality(DOMAIN tree)
           log_n == ceil_log2(n)
       IN  IF log_n = 0
           THEN /\ pc' = "panicked"
                /\ UNCHANGED <<up, depth>>
           ELSE /\ \E r \in {dfs_lca(0, 0, 0, tree,
                                     [v \in 0..(n - 1) |-> [k \in 0..(log_n - 1) |-> 0]],
                                     [v \in 0..(n - 1) |-> 0])} :
                      /\ up' = r.up
                      /\ depth' = r.depth
                /\ pc' = "lca"
    /\ UNCHANGED <<tree, query, answer, eulerVars, pointVars, relVars, sweepVars, dirVars>>

\* Lines 20-43.
LcaQuery ==
    /\ pc = "lca"
    /\ \E a, b \in DOMAIN tree :
          /\ query' = <<a, b>>
          /\ answer' = lca(up, depth, a, b)
    /\ pc' = "lca_done"
    /\ UNCHANGED <<tree, up, depth, eulerVars, pointVars, relVars, sweepVars, dirVars>>

NextLca == LcaNew \/ LcaQuery

SpecLca == InitLca /\ [][NextLca]_vars

\* The vertices joined to a vertex of S by a path that does not pass through
\* the vertex u.
RECURSIVE ReachAvoiding(_, _, _)
ReachAvoiding(t, S, u) ==
    LET T == S \cup {w \in DOMAIN t : w # u /\ \E v \in S : w \in Range(t[v])}
    IN  IF T = S THEN S ELSE ReachAvoiding(t, T, u)

\* u is v or an ancestor of v in the tree rooted at 0: u is v, or taking u
\* out cuts v off from the root.
IsAncestorOrSelf(t, u, v) ==
    u = v \/ u = 0 \/ v \notin ReachAvoiding(t, {0}, u)

CommonAncestors(t, a, b) ==
    {u \in DOMAIN t : IsAncestorOrSelf(t, u, a) /\ IsAncestorOrSelf(t, u, b)}

\* The deepest common ancestor: the one every common ancestor is above.
IsLowestCommonAncestor(t, c, a, b) ==
    /\ c \in CommonAncestors(t, a, b)
    /\ \A u \in CommonAncestors(t, a, b) : IsAncestorOrSelf(t, u, c)

(***************************************************************************)
(* C22: on a tree of n >= 1 vertices rooted at 0, Lca::new does not panic  *)
(* and Lca::lca(a, b) is the lowest common ancestor of a and b, the        *)
(* deepest vertex that is a or b or an ancestor of both, for all a and b.  *)
(***************************************************************************)
C22_LowestCommonAncestor ==
    /\ pc # "panicked"
    /\ pc = "lca_done" => IsLowestCommonAncestor(tree, answer, query[1], query[2])

====
